---- MODULE Spec2Model ----
(***************************************************************************)
(* RunOnceDuration admission plugin                                        *)
(* (pkg/quota/admission/runonceduration/admission.go).                     *)
(*                                                                         *)
(* Admit is modelled as a small-step state machine, one program counter    *)
(* per in-flight call.  The plugin's config and the project cache are      *)
(* shared by all calls.  *int64 fields are pointers into a heap `mem`, so  *)
(* that the aliasing created by line 93 (the pod receives the config's     *)
(* own pointer) is part of the model.  Strings are sequences of one-       *)
(* character strings; int64 values are a sign and a canonical decimal      *)
(* magnitude, which keeps the 64-bit range checks of strconv exact.        *)
(***************************************************************************)
EXTENDS Integers, Sequences, FiniteSets, TLC

VARIABLES config, cache, mem, attributes, pod, pc, ns, applied, ret, writes, lookups

vars == <<config, cache, mem, attributes, pod, pc, ns, applied, ret, writes, lookups>>

----------------------------------------------------------------------------
(* Bounds *)

\* number of Admit calls in flight at once in ConcSpec
NumReqs == 2

\* annotation values are all strings over Alphabet of at most this length,
\* plus the fixed strings of Scenarios
MaxRawLen == 2

----------------------------------------------------------------------------
(* int64 values, strconv.ParseInt(s, 10, 64) *)

Digits == {"0", "1", "2", "3", "4", "5", "6", "7", "8", "9"}

DigitVal == [c \in Digits |-> CASE c = "0" -> 0 [] c = "1" -> 1 [] c = "2" -> 2
                                [] c = "3" -> 3 [] c = "4" -> 4 [] c = "5" -> 5
                                [] c = "6" -> 6 [] c = "7" -> 7 [] c = "8" -> 8
                                [] c = "9" -> 9]

\* the absent value behind a nil *int64, and an unallocated heap cell
NoValue == [neg |-> FALSE, mag |-> << >>]

\* 1<<64 - 1 and 1<<63 as decimal magnitudes
MaxUint64 == <<1,8,4,4,6,7,4,4,0,7,3,7,0,9,5,5,1,6,1,5>>

Cutoff == <<9,2,2,3,3,7,2,0,3,6,8,5,4,7,7,5,8,0,8>>

\* 1<<63 - 1
MaxInt64 == <<9,2,2,3,3,7,2,0,3,6,8,5,4,7,7,5,8,0,7>>

\* the int64 zero value
Zero == [neg |-> FALSE, mag |-> <<0>>]

\* canonical magnitudes: a < b
MagLess(a, b) ==
    \/ Len(a) < Len(b)
    \/ /\ Len(a) = Len(b)
       /\ \E i \in 1..Len(a) : /\ a[i] < b[i]
                               /\ \A j \in 1..(i-1) : a[j] = b[j]

\* n*10 + d on canonical magnitudes
MagPush(n, d) == IF n = <<0>> THEN <<d>> ELSE Append(n, d)

\* strconv.ParseUint(s, 10, 64), scanning s from position i with accumulator n
RECURSIVE ParseUintFrom(_, _, _)
ParseUintFrom(s, i, n) ==
    IF i > Len(s) THEN [mag |-> n, err |-> "nil"]
    ELSE IF s[i] \notin Digits THEN [mag |-> <<0>>, err |-> "invalid syntax"]
    ELSE LET n1 == MagPush(n, DigitVal[s[i]])
         IN  IF MagLess(MaxUint64, n1)
             THEN [mag |-> MaxUint64, err |-> "value out of range"]
             ELSE ParseUintFrom(s, i + 1, n1)

ParseUint(s) ==
    IF s = << >> THEN [mag |-> <<0>>, err |-> "invalid syntax"]
    ELSE ParseUintFrom(s, 1, <<0>>)

\* strconv.ParseInt(s, 10, 64)
ParseInt(s) ==
    IF s = << >> THEN [val |-> Zero, err |-> "invalid syntax"]
    ELSE LET neg  == s[1] = "-"
             body == IF s[1] \in {"+", "-"} THEN Tail(s) ELSE s
             un   == ParseUint(body)
         IN  IF un.err = "invalid syntax"
             THEN [val |-> Zero, err |-> "invalid syntax"]
             ELSE IF ~neg /\ ~MagLess(un.mag, Cutoff)
             THEN [val |-> [neg |-> FALSE, mag |-> MaxInt64], err |-> "value out of range"]
             ELSE IF neg /\ MagLess(Cutoff, un.mag)
             THEN [val |-> [neg |-> TRUE, mag |-> Cutoff], err |-> "value out of range"]
             ELSE [val |-> [neg |-> neg /\ un.mag # <<0>>, mag |-> un.mag],
                   err |-> "nil"]

----------------------------------------------------------------------------
(* Inputs *)

D5 == [neg |-> FALSE, mag |-> <<5>>]

D300 == [neg |-> FALSE, mag |-> <<3,0,0>>]

D600 == [neg |-> FALSE, mag |-> <<6,0,0>>]

Alphabet == {"0", "5", "-", "+", "a"}

Scenarios == { <<"1","2","0">>, <<"a","b","c">>, <<"+","7">>, <<"0","0","7">>,
               <<"9","2","2","3","3","7","2","0","3","6","8","5","4","7","7","5","8","0","7">>,
               <<"9","2","2","3","3","7","2","0","3","6","8","5","4","7","7","5","8","0","8">>,
               <<"-","9","2","2","3","3","7","2","0","3","6","8","5","4","7","7","5","8","0","8">>,
               <<"-","9","2","2","3","3","7","2","0","3","6","8","5","4","7","7","5","8","0","9">>,
               <<"1","8","4","4","6","7","4","4","0","7","3","7","0","9","5","5","1","6","1","6">>,
               <<"1","8","4","4","6","7","4","4","0","7","3","7","0","9","5","5","1","6","1","6","a">> }

RawStrings == UNION {[1..k -> Alphabet] : k \in 0..MaxRawLen} \cup Scenarios

\* api.ActiveDeadlineSecondsOverrideAnnotation
ActiveDeadlineSecondsOverrideAnnotation == "openshift.io/active-deadline-seconds-override"

OtherAnnotation == "openshift.io/description"

Names == {"batch-ns", "other-ns"}

\* ns.Annotations: a nil map, or a map from annotation keys to strings
NilAnnotations == [isNil |-> TRUE, m |-> << >>]

AnnotationMaps(raws) ==
    { [isNil |-> FALSE, m |-> [k \in {OtherAnnotation} \cap K |-> <<"x">>]] :
          K \in SUBSET {OtherAnnotation} }
    \cup
    { [isNil |-> FALSE,
       m |-> [k \in {ActiveDeadlineSecondsOverrideAnnotation} \cup K |->
                 IF k = ActiveDeadlineSecondsOverrideAnnotation THEN s ELSE <<"x">>]] :
          s \in raws, K \in SUBSET {OtherAnnotation} }

\* the project cache: the namespaces it can return, by name
Caches(raws) ==
    LET batch == { [n \in {} |-> 0] } \cup
                 { [n \in {"batch-ns"} |-> [Name |-> n, Annotations |-> a]] :
                       a \in {NilAnnotations} \cup AnnotationMaps(raws) }
        other == { [n \in {} |-> 0],
                   [n \in {"other-ns"} |->
                       [Name |-> n,
                        Annotations |-> [isNil |-> FALSE,
                                         m |-> [k \in {ActiveDeadlineSecondsOverrideAnnotation}
                                                   |-> <<"7","7">>]]]] }
    IN  { [n \in (DOMAIN b) \cup (DOMAIN o) |-> IF n \in DOMAIN b THEN b[n] ELSE o[n]] :
              b \in batch, o \in other }

RestartPolicies == {"Always", "OnFailure", "Never"}

\* the object of a request as submitted: a pod, or something that is not a pod
Objects(deadlines) ==
    { [kind |-> "Build"] } \cup
    { [kind |-> "Pod", RestartPolicy |-> p, ActiveDeadlineSeconds |-> d] :
          p \in RestartPolicies, d \in deadlines }

Requests(resources, subresources, names, objects) ==
    { [resource |-> rs, subresource |-> sr, namespace |-> n, object |-> o] :
          rs \in resources, sr \in subresources, n \in names, o \in objects }

\* the plugin config as loaded: absent, or with an optional default
ConfigInputs(defaults) ==
    { [isNil |-> TRUE, default |-> NoValue] } \cup
    { [isNil |-> FALSE, default |-> d] : d \in {NoValue} \cup defaults }

----------------------------------------------------------------------------
(* Heap *)

NilPtr == [seg |-> "nil", req |-> 0]

\* the int64 that config.ActiveDeadlineSecondsOverride points to
CfgPtr == [seg |-> "config", req |-> 0]

\* the int64 the submitter's pod.Spec.ActiveDeadlineSeconds points to
SubPtr(r) == [seg |-> "submitted", req |-> r]

\* the local overrideInt64 of call r, which escapes to the heap at line 125
OvrPtr(r) == [seg |-> "overrideInt64", req |-> r]

Addrs(R) == {CfgPtr} \cup {SubPtr(r) : r \in R} \cup {OvrPtr(r) : r \in R}

Pending == [kind |-> "pending"]

NoError == [kind |-> "nil"]

\* admission.NewForbidden(attributes, err)
NewForbidden(a, err) ==
    [kind |-> "Forbidden", resource |-> a.resource, namespace |-> a.namespace, cause |-> err]

InitWith(R, cfgs, caches, reqs) ==
    \E c \in cfgs, a \in [R -> reqs] :
        /\ config = [isNil |-> c.isNil,
                     ActiveDeadlineSecondsOverride |->
                         IF c.default = NoValue THEN NilPtr ELSE CfgPtr]
        /\ cache \in caches
        /\ attributes = a
        /\ mem = [p \in Addrs(R) |->
                     IF p = CfgPtr THEN c.default
                     ELSE IF p.seg = "submitted" /\ a[p.req].object.kind = "Pod"
                          THEN a[p.req].object.ActiveDeadlineSeconds
                          ELSE NoValue]
        /\ pod = [r \in R |->
                     IF a[r].object.kind = "Pod"
                     THEN [kind |-> "Pod",
                           RestartPolicy |-> a[r].object.RestartPolicy,
                           ActiveDeadlineSeconds |->
                               IF a[r].object.ActiveDeadlineSeconds = NoValue
                               THEN NilPtr ELSE SubPtr(r)]
                     ELSE [kind |-> a[r].object.kind]]
        /\ pc = [r \in R |-> "Admit"]
        /\ ns = [r \in R |-> ""]
        /\ applied = [r \in R |-> FALSE]
        /\ ret = [r \in R |-> Pending]
        /\ writes = [r \in R |-> << >>]
        /\ lookups = [r \in R |-> 0]

\* one Admit call, over the full input space
Init ==
    InitWith({1}, ConfigInputs({Zero, D300}), Caches(RawStrings),
             Requests({"pods", "builds"}, {"", "status"}, Names,
                      Objects({NoValue, D5, D600})))

\* NumReqs concurrent Admit calls on distinct pods
ConcInit ==
    InitWith(1..NumReqs, ConfigInputs({D300}),
             Caches({<<"1","2","0">>, <<"a","b","c">>}),
             Requests({"pods"}, {""}, Names,
                      { [kind |-> "Pod", RestartPolicy |-> "Always",
                         ActiveDeadlineSeconds |-> D600],
                        [kind |-> "Pod", RestartPolicy |-> "Never",
                         ActiveDeadlineSeconds |-> NoValue],
                        [kind |-> "Pod", RestartPolicy |-> "OnFailure",
                         ActiveDeadlineSeconds |-> D600] }))

----------------------------------------------------------------------------
(* Admit *)

Calls == DOMAIN pc

\* mutant: the a.config == nil case of the switch is missing
NotApplicableNoNilCheck(r) ==
    \/ attributes[r].resource # "pods"
    \/ attributes[r].subresource # ""

\* the switch of lines 67-72: the request is not for this plugin
NotApplicable(r) ==
    \/ config.isNil
    \/ attributes[r].resource # "pods"
    \/ attributes[r].subresource # ""

\* mutant: the restart policy switch lets Always through
BoundedPolicyAny(p) == p \in {"Never", "OnFailure", "Always"}

\* the switch of lines 79-85
BoundedPolicy(p) == p \in {"Never", "OnFailure"}

\* a.cache.GetNamespace(namespace)
CacheGetNamespace(name) ==
    IF name \in DOMAIN cache
    THEN [ref |-> name, err |-> NoError]
    ELSE [ref |-> "", err |-> [kind |-> "NotFound", name |-> name]]

\* mutant: a value that does not parse is skipped instead of reported
ProjectOverrideSkipMalformed(n) ==
    IF n.Annotations.isNil
    THEN [applied |-> FALSE, val |-> NoValue, err |-> NoError]
    ELSE IF ActiveDeadlineSecondsOverrideAnnotation \notin DOMAIN n.Annotations.m
    THEN [applied |-> FALSE, val |-> NoValue, err |-> NoError]
    ELSE LET parsed == ParseInt(n.Annotations.m[ActiveDeadlineSecondsOverrideAnnotation])
         IN  IF parsed.err # "nil"
             THEN [applied |-> FALSE, val |-> NoValue, err |-> NoError]
             ELSE [applied |-> TRUE, val |-> parsed.val, err |-> NoError]

\* applyProjectAnnotationOverride after the lookup, lines 114-126, on the
\* namespace object n: whether an override applies, its value, or the error
ProjectOverride(n) ==
    IF n.Annotations.isNil
    THEN [applied |-> FALSE, val |-> NoValue, err |-> NoError]
    ELSE IF ActiveDeadlineSecondsOverrideAnnotation \notin DOMAIN n.Annotations.m
    THEN [applied |-> FALSE, val |-> NoValue, err |-> NoError]
    ELSE LET override == n.Annotations.m[ActiveDeadlineSecondsOverrideAnnotation]
             parsed   == ParseInt(override)
         IN  IF parsed.err # "nil"
             THEN [applied |-> FALSE, val |-> NoValue,
                   err |-> [kind |-> "cannot parse the ActiveDeadlineSeconds override",
                            override |-> override, project |-> n.Name,
                            cause |-> parsed.err]]
             ELSE [applied |-> TRUE, val |-> parsed.val, err |-> NoError]

\* mutant: the parsed value is stored through the config's pointer
OverrideTargetConfigCell(r) ==
    IF config.ActiveDeadlineSecondsOverride # NilPtr
    THEN config.ActiveDeadlineSecondsOverride ELSE OvrPtr(r)

\* where line 125 makes the pod's deadline point: the fresh local overrideInt64
OverrideTarget(r) == OvrPtr(r)

\* mutant: the default is applied even after an override
ShouldApplyDefaultIgnoringOverride(r) ==
    config.ActiveDeadlineSecondsOverride # NilPtr

\* mutant: the default only fills in a deadline the submitter left out
ShouldApplyDefaultIfUnset(r) ==
    /\ ~applied[r]
    /\ config.ActiveDeadlineSecondsOverride # NilPtr
    /\ pod[r].ActiveDeadlineSeconds = NilPtr

\* mutant: the config's pointer is copied without the nil test
ShouldApplyDefaultUnconditional(r) == ~applied[r]

\* the condition of line 92
ShouldApplyDefault(r) ==
    ~applied[r] /\ config.ActiveDeadlineSecondsOverride # NilPtr

Return(r, err) ==
    /\ ret' = [ret EXCEPT ![r] = err]
    /\ pc' = [pc EXCEPT ![r] = "done"]

\* lines 66-85: the filters, up to the call of the resolver
AdmitEntry(r) ==
    /\ pc[r] = "Admit"
    /\ IF NotApplicable(r)
       THEN Return(r, NoError)
       ELSE IF pod[r].kind # "Pod"
       THEN Return(r, NewForbidden(attributes[r],
                                   [kind |-> "unexpected object", object |-> pod[r]]))
       ELSE IF BoundedPolicy(pod[r].RestartPolicy)
       THEN /\ pc' = [pc EXCEPT ![r] = "GetNamespace"]
            /\ ret' = ret
       ELSE Return(r, NoError)
    /\ UNCHANGED <<config, cache, mem, attributes, pod, ns, applied, writes, lookups>>

\* mutant: a failed lookup is treated as "no override" instead of rejected
GetNamespaceFailOpen(r) ==
    /\ pc[r] = "GetNamespace"
    /\ lookups' = [lookups EXCEPT ![r] = @ + 1]
    /\ LET got == CacheGetNamespace(attributes[r].namespace)
       IN  IF got.err # NoError
           THEN /\ pc' = [pc EXCEPT ![r] = "ApplyDefault"]
                /\ UNCHANGED <<ns, ret>>
           ELSE /\ ns' = [ns EXCEPT ![r] = got.ref]
                /\ pc' = [pc EXCEPT ![r] = "ApplyOverride"]
                /\ ret' = ret
    /\ UNCHANGED <<config, cache, mem, attributes, pod, applied, writes>>

\* lines 110-113, and line 89 when the lookup fails
GetNamespace(r) ==
    /\ pc[r] = "GetNamespace"
    /\ lookups' = [lookups EXCEPT ![r] = @ + 1]
    /\ LET got == CacheGetNamespace(attributes[r].namespace)
       IN  IF got.err # NoError
           THEN /\ Return(r, NewForbidden(attributes[r],
                                 [kind |-> "error looking up pod namespace",
                                  cause |-> got.err]))
                /\ ns' = ns
           ELSE /\ ns' = [ns EXCEPT ![r] = got.ref]
                /\ pc' = [pc EXCEPT ![r] = "ApplyOverride"]
                /\ ret' = ret
    /\ UNCHANGED <<config, cache, mem, attributes, pod, applied, writes>>

\* mutant: the parsed value is stored on the pod before the parse error is
\* looked at
ApplyOverrideWriteFirst(r) ==
    /\ pc[r] = "ApplyOverride"
    /\ LET n   == cache[ns[r]]
           res == ProjectOverride(n)
       IN  IF res.err # NoError
           THEN /\ Return(r, NewForbidden(attributes[r], res.err))
                /\ mem' = [mem EXCEPT ![OverrideTarget(r)] =
                              ParseInt(n.Annotations.m[
                                  ActiveDeadlineSecondsOverrideAnnotation]).val]
                /\ pod' = [pod EXCEPT ![r].ActiveDeadlineSeconds = OverrideTarget(r)]
                /\ writes' = [writes EXCEPT ![r] = Append(@, "override")]
                /\ UNCHANGED applied
           ELSE IF res.applied
           THEN /\ mem' = [mem EXCEPT ![OverrideTarget(r)] = res.val]
                /\ pod' = [pod EXCEPT ![r].ActiveDeadlineSeconds = OverrideTarget(r)]
                /\ writes' = [writes EXCEPT ![r] = Append(@, "override")]
                /\ applied' = [applied EXCEPT ![r] = TRUE]
                /\ pc' = [pc EXCEPT ![r] = "ApplyDefault"]
                /\ ret' = ret
           ELSE /\ pc' = [pc EXCEPT ![r] = "ApplyDefault"]
                /\ UNCHANGED <<mem, pod, applied, writes, ret>>
    /\ UNCHANGED <<config, cache, attributes, ns, lookups>>

\* lines 114-126, and lines 87-90 of the caller
ApplyOverride(r) ==
    /\ pc[r] = "ApplyOverride"
    /\ LET res == ProjectOverride(cache[ns[r]])
       IN  IF res.err # NoError
           THEN /\ Return(r, NewForbidden(attributes[r], res.err))
                /\ UNCHANGED <<mem, pod, applied, writes>>
           ELSE IF res.applied
           THEN /\ mem' = [mem EXCEPT ![OverrideTarget(r)] = res.val]
                /\ pod' = [pod EXCEPT ![r].ActiveDeadlineSeconds = OverrideTarget(r)]
                /\ writes' = [writes EXCEPT ![r] = Append(@, "override")]
                /\ applied' = [applied EXCEPT ![r] = TRUE]
                /\ pc' = [pc EXCEPT ![r] = "ApplyDefault"]
                /\ ret' = ret
           ELSE /\ pc' = [pc EXCEPT ![r] = "ApplyDefault"]
                /\ UNCHANGED <<mem, pod, applied, writes, ret>>
    /\ UNCHANGED <<config, cache, attributes, ns, lookups>>

\* lines 92-95
ApplyDefault(r) ==
    /\ pc[r] = "ApplyDefault"
    /\ IF ShouldApplyDefault(r)
       THEN /\ pod' = [pod EXCEPT ![r].ActiveDeadlineSeconds =
                                      config.ActiveDeadlineSecondsOverride]
            /\ writes' = [writes EXCEPT ![r] = Append(@, "default")]
       ELSE UNCHANGED <<pod, writes>>
    /\ Return(r, NoError)
    /\ UNCHANGED <<config, cache, mem, attributes, ns, applied, lookups>>

Next ==
    \/ \E r \in Calls : AdmitEntry(r)
    \/ \E r \in Calls : GetNamespace(r)
    \/ \E r \in Calls : ApplyOverride(r)
    \/ \E r \in Calls : ApplyDefault(r)

Spec == Init /\ [][Next]_vars

ConcSpec == ConcInit /\ [][Next]_vars

----------------------------------------------------------------------------
(* State functions used by the properties *)

Done(r) == pc[r] = "done"

IsPod(r) == attributes[r].object.kind = "Pod"

\* the deadline the submitter sent, NoValue when absent
Submitted(r) == attributes[r].object.ActiveDeadlineSeconds

\* the pod's deadline now, NoValue when the pointer is nil
Deadline(r) ==
    IF pod[r].ActiveDeadlineSeconds = NilPtr THEN NoValue
    ELSE mem[pod[r].ActiveDeadlineSeconds]

HasDefault == ~config.isNil /\ config.ActiveDeadlineSecondsOverride # NilPtr

DefaultValue == mem[CfgPtr]

\* the request gets past every filter of Admit and reaches the resolver
ReachesResolver(r) ==
    /\ ~config.isNil
    /\ attributes[r].resource = "pods"
    /\ attributes[r].subresource = ""
    /\ IsPod(r)
    /\ attributes[r].object.RestartPolicy \in {"Never", "OnFailure"}

NsFound(r) == attributes[r].namespace \in DOMAIN cache

HasOverrideKey(r) ==
    /\ NsFound(r)
    /\ ~cache[attributes[r].namespace].Annotations.isNil
    /\ ActiveDeadlineSecondsOverrideAnnotation
           \in DOMAIN cache[attributes[r].namespace].Annotations.m

NoOverrideKey(r) == NsFound(r) /\ ~HasOverrideKey(r)

OverrideRaw(r) ==
    cache[attributes[r].namespace].Annotations.m[ActiveDeadlineSecondsOverrideAnnotation]

\* what a base-10 signed 64-bit integer literal is, stated without the parser:
\* an optional sign, at least one digit, only digits, magnitude within range
LitBody(s) == IF s # << >> /\ s[1] \in {"+", "-"} THEN Tail(s) ELSE s

LitMag(s) ==
    LET b  == LitBody(s)
        nz == {i \in 1..Len(b) : b[i] # "0"}
    IN  IF nz = {} THEN <<0>>
        ELSE LET k == CHOOSE i \in nz : \A j \in nz : i <= j
             IN  [i \in 1..(Len(b) - k + 1) |-> DigitVal[b[i + k - 1]]]

IsInt64Literal(s) ==
    /\ LitBody(s) # << >>
    /\ \A i \in 1..Len(LitBody(s)) : LitBody(s)[i] \in Digits
    /\ IF s[1] = "-" THEN ~MagLess(Cutoff, LitMag(s)) ELSE MagLess(LitMag(s), Cutoff)

LitValue(s) == [neg |-> s[1] = "-" /\ LitMag(s) # <<0>>, mag |-> LitMag(s)]

IsRejection(e) == e.kind = "Forbidden"

----------------------------------------------------------------------------
(* Properties *)

\* C1: a call that reaches the resolver and whose namespace carries an
\* override annotation that is a base-10 int64 literal returns no error and
\* leaves the pod's deadline equal to the value of the literal, whatever the
\* default and whatever the submitter set.
C1_OverrideWins ==
    \A r \in Calls :
        (Done(r) /\ ReachesResolver(r) /\ HasOverrideKey(r)
                 /\ IsInt64Literal(OverrideRaw(r)))
        => /\ ret[r] = NoError
           /\ Deadline(r) = LitValue(OverrideRaw(r))

C1_Witness ==
    \E r \in Calls :
        /\ Done(r) /\ ReachesResolver(r) /\ HasOverrideKey(r)
        /\ OverrideRaw(r) = <<"1","2","0">>
        /\ HasDefault /\ DefaultValue = D300
        /\ Submitted(r) = D600
        /\ Deadline(r) = [neg |-> FALSE, mag |-> <<1,2,0>>]

\* C2: with a default configured and a namespace that is found and has no
\* override annotation, a pods request with no subresource for a Never or
\* OnFailure pod returns no error and the pod's deadline is the default,
\* overwriting what the submitter set.
C2_DefaultApplied ==
    \A r \in Calls :
        (Done(r) /\ ReachesResolver(r) /\ NoOverrideKey(r) /\ HasDefault)
        => /\ ret[r] = NoError
           /\ Deadline(r) = DefaultValue

C2_Witness ==
    \E r \in Calls :
        /\ Done(r) /\ ReachesResolver(r) /\ NoOverrideKey(r) /\ HasDefault
        /\ DefaultValue = D300
        /\ Submitted(r) = D5
        /\ Deadline(r) = D300

\* C3: a pod with restart policy Always is admitted without error and its
\* deadline is left exactly as submitted, for every config and namespace state.
C3_AlwaysUntouched ==
    \A r \in Calls :
        (Done(r) /\ IsPod(r) /\ attributes[r].object.RestartPolicy = "Always")
        => /\ ret[r] = NoError
           /\ Deadline(r) = Submitted(r)
           /\ writes[r] = << >>

C3_Witness ==
    \E r \in Calls :
        /\ Done(r) /\ IsPod(r) /\ attributes[r].object.RestartPolicy = "Always"
        /\ attributes[r].resource = "pods" /\ attributes[r].subresource = ""
        /\ HasDefault
        /\ HasOverrideKey(r) /\ OverrideRaw(r) = <<"1","2","0">>
        /\ Submitted(r) = D600

\* C4: a call that reaches the resolver and finds an override annotation that
\* is not a base-10 int64 literal is rejected with an error carrying the raw
\* string and the namespace name; the deadline stays as submitted and the
\* default is not applied.
C4_MalformedRejected ==
    \A r \in Calls :
        (Done(r) /\ ReachesResolver(r) /\ HasOverrideKey(r)
                 /\ ~IsInt64Literal(OverrideRaw(r)))
        => /\ IsRejection(ret[r])
           /\ ret[r].cause.override = OverrideRaw(r)
           /\ ret[r].cause.project = attributes[r].namespace
           /\ Deadline(r) = Submitted(r)
           /\ writes[r] = << >>

C4_Witness ==
    \E r \in Calls :
        /\ Done(r) /\ ReachesResolver(r) /\ HasOverrideKey(r)
        /\ OverrideRaw(r) =
              <<"9","2","2","3","3","7","2","0","3","6","8","5","4","7","7","5","8","0","8">>
        /\ HasDefault
        /\ Submitted(r) = D600
        /\ IsRejection(ret[r])

\* C5: a call that reaches the resolver and whose namespace lookup fails is
\* rejected, the deadline stays as submitted, the default is not applied, and
\* the lookup was made exactly once; no call ever looks up more than once.
C5_LookupFailureRejected ==
    \A r \in Calls :
        /\ lookups[r] <= 1
        /\ (Done(r) /\ ReachesResolver(r) /\ ~NsFound(r))
           => /\ IsRejection(ret[r])
              /\ ret[r].cause.kind = "error looking up pod namespace"
              /\ Deadline(r) = Submitted(r)
              /\ writes[r] = << >>
              /\ lookups[r] = 1

C5_Witness ==
    \E r \in Calls :
        /\ Done(r) /\ ReachesResolver(r) /\ ~NsFound(r)
        /\ HasDefault
        /\ Submitted(r) = D600
        /\ IsRejection(ret[r])

\* C6: with no config, no call ever consults the cache or writes, and a call
\* returns no error with the pod's deadline as submitted, for every restart
\* policy and namespace state.
C6_NoConfigNoOp ==
    \A r \in Calls :
        config.isNil
        => /\ lookups[r] = 0
           /\ writes[r] = << >>
           /\ Done(r) => /\ ret[r] = NoError
                         /\ IsPod(r) => Deadline(r) = Submitted(r)

C6_Witness ==
    \E r \in Calls :
        /\ config.isNil /\ Done(r)
        /\ attributes[r].resource = "pods" /\ attributes[r].subresource = ""
        /\ IsPod(r) /\ attributes[r].object.RestartPolicy = "Never"
        /\ HasOverrideKey(r) /\ OverrideRaw(r) = <<"1","2","0">>
        /\ Submitted(r) = D600

\* C7: with a config that has no default and a namespace that is found and
\* has no override annotation, a Never or OnFailure pod is admitted without
\* error and its deadline is exactly what the submitter sent.
C7_NothingConfigured ==
    \A r \in Calls :
        (Done(r) /\ ReachesResolver(r) /\ NoOverrideKey(r) /\ ~HasDefault)
        => /\ ret[r] = NoError
           /\ Deadline(r) = Submitted(r)
           /\ writes[r] = << >>

C7_Witness ==
    \E r \in Calls :
        /\ Done(r) /\ ReachesResolver(r) /\ NoOverrideKey(r) /\ ~HasDefault
        /\ Submitted(r) = D600
        /\ Deadline(r) = D600

\* C8: a call writes the deadline at most once, by the override path or by
\* the default path and never by both, and a call that returns an error has
\* written nothing.
C8_AtMostOneWrite ==
    \A r \in Calls :
        /\ writes[r] \in { << >>, <<"override">>, <<"default">> }
        /\ (ret[r] # Pending /\ ret[r] # NoError) => writes[r] = << >>

C8_Witness ==
    \E r \in Calls :
        /\ Done(r) /\ HasDefault /\ writes[r] = <<"override">>

\* C10 (as claimed): a call that returns no error and wrote the deadline left
\* a non-negative value on the pod.
C10_WrittenDeadlineNonNegative ==
    \A r \in Calls :
        (Done(r) /\ ret[r] = NoError /\ writes[r] # << >>) => ~Deadline(r).neg

\* the result of a call run alone against the shared config and cache:
\* the sequential reading of Admit, lines 66-96 and 109-127
AdmitAlone(r) ==
    LET a    == attributes[r]
        asIs == [ret |-> NoError,
                 deadline |-> IF IsPod(r) THEN Submitted(r) ELSE NoValue]
    IN  IF config.isNil \/ a.resource # "pods" \/ a.subresource # "" THEN asIs
        ELSE IF ~IsPod(r)
        THEN [ret |-> NewForbidden(a, [kind |-> "unexpected object", object |-> a.object]),
              deadline |-> NoValue]
        ELSE IF a.object.RestartPolicy \notin {"Never", "OnFailure"} THEN asIs
        ELSE IF a.namespace \notin DOMAIN cache
        THEN [ret |-> NewForbidden(a, [kind |-> "error looking up pod namespace",
                                       cause |-> [kind |-> "NotFound",
                                                  name |-> a.namespace]]),
              deadline |-> Submitted(r)]
        ELSE LET raw == cache[a.namespace].Annotations
             IN  IF raw.isNil
                    \/ ActiveDeadlineSecondsOverrideAnnotation \notin DOMAIN raw.m
                 THEN IF config.ActiveDeadlineSecondsOverride # NilPtr
                      THEN [ret |-> NoError, deadline |-> mem[CfgPtr]]
                      ELSE asIs
                 ELSE IF IsInt64Literal(raw.m[ActiveDeadlineSecondsOverrideAnnotation])
                 THEN [ret |-> NoError,
                       deadline |-> LitValue(raw.m[ActiveDeadlineSecondsOverrideAnnotation])]
                 ELSE [ret |-> NewForbidden(a,
                                  ProjectOverride(cache[a.namespace]).err),
                       deadline |-> Submitted(r)]

Outcome(r) ==
    [ret |-> ret[r], deadline |-> IF IsPod(r) THEN Deadline(r) ELSE NoValue]

C9_SharedStateUnchanged ==
    [][/\ config' = config
       /\ cache' = cache
       /\ mem'[CfgPtr] = mem[CfgPtr]]_vars

\* C9: under every interleaving of concurrent calls on distinct pods, the
\* config, its default value and the cached namespaces never change, and each
\* call ends with the error and the deadline it would have had running alone.
C9_Isolation ==
    /\ C9_SharedStateUnchanged
    /\ [](\A r \in Calls : Done(r) => Outcome(r) = AdmitAlone(r))

\* two calls are finished, one holding the config's own pointer and the other
\* an override parsed from its namespace
C9_Witness ==
    /\ \A r \in Calls : Done(r)
    /\ \E r1, r2 \in Calls :
          /\ r1 # r2
          /\ pod[r1].ActiveDeadlineSeconds = CfgPtr
          /\ writes[r2] = <<"override">>
          /\ Deadline(r1) = D300
          /\ Deadline(r2) = [neg |-> FALSE, mag |-> <<7,7>>]

====
